---------------------------- MODULE Spec2Model ----------------------------
(***************************************************************************)
(* Model of the Riddler Lottery notebook (src/ipynb/RiddlerLottery.ipynb): *)
(* factors, the two number filters, multimap/product/combinations, the     *)
(* generator k_disjoint with is_disjoint, and the product discovery        *)
(* N = next(n for n in products if any(k_disjoint(5, products[n]))).       *)
(*                                                                         *)
(* Python values are modelled as follows: a tuple or list is a sequence,   *)
(* a set is a set, a dict is a record [keys, val] holding the keys in      *)
(* insertion order and the mapping, a generator is a stack of frames.      *)
(* Python indexes from 0, sequences here from 1: selections[i] of the code *)
(* is selections[i + 1] here.                                              *)
(***************************************************************************)
EXTENDS Integers, Sequences, FiniteSets

VARIABLES
    mode,             \* which part of the notebook this behaviour runs
    pc,               \* the statement that part is at
    \* k_disjoint
    k,                \* the argument k
    selections,       \* the argument selections (a list of tuples)
    default_partial,  \* contents of the one set() object bound to the default
                      \* argument partial_solution when the def is executed
    gens,             \* the generator objects created by calls of k_disjoint
    hist,             \* history: the longest result list any call has produced
    \* factors
    n,                \* the argument n
    facs,             \* the list returned, once it has returned
    \* the number filters (cells 3, 5 and 7)
    numbers,          \* the global numbers
    prime_counts,     \* the global prime_counts (a Counter)
    acc,              \* the set or Counter under construction
    todo,             \* what the running loop has still to iterate over
    round,            \* how many times cell 7 has completed
    \* multimap and the product discovery (cells 9 and 21)
    universe,         \* the set the combinations are drawn from
    sel_size,         \* the size of a selection
    friends,          \* the number of disjoint selections looked for
    items,            \* combinations(universe, sel_size) not yet consumed
    products,         \* the dict under construction, then the global products
    examined,         \* history: the keys the discovery has examined, in order
    steps,            \* history: the number of steps cells 9 and 21 have taken
    N                 \* the global N, once bound

searchVars == <<k, selections, default_partial, gens, hist>>
factorVars == <<n, facs>>
filterVars == <<numbers, prime_counts, acc, todo, round>>
indexVars == <<universe, sel_size, friends, items, products, examined, steps, N>>

vars == <<mode, pc, searchVars, factorVars, filterVars, indexVars>>

---------------------------------------------------------------------------
(* Bounds of the model. *)
MaxNum == 3    \* numbers 1..MaxNum make up the generic selections
MaxSels == 3   \* longest generic list of selections
MaxK == 3      \* largest generic k
CallsMaxNum == 3   \* numbers of the generic selections, two generators
CallsMaxSels == 2  \* longest generic list of selections, two generators

MaxRounds == 2     \* how many times cells 5 and 7 are executed
MaxUniverse == 7   \* generic universes are the subsets of 1..MaxUniverse
MaxSize == 3       \* largest generic selection size
MaxFriends == 2    \* largest generic number of friends

(* The number of friends: the literal 5 of the k_disjoint calls. *)
Friends == 5

(* range(1, 71): the numbers are 1..70. *)
MaxNumber == 70

(* len(distinct(factors(n))) >= 2 *)
MinDistinctPrimes == 2

(* prime_counts[p] >= 5 *)
MinPrimeCount == 5

---------------------------------------------------------------------------
(* The values of the variables a part of the notebook does not use. *)
IdleSearch ==
    /\ k = 0 /\ selections = <<>> /\ gens = <<>> /\ hist = <<>>

IdleFactors == n = 1 /\ facs = [done |-> FALSE, value |-> <<>>]

IdleFilter ==
    /\ numbers = {} /\ prime_counts = <<>> /\ acc = {} /\ todo = <<>> /\ round = 0

IdleIndex ==
    /\ universe = {} /\ sel_size = 0 /\ friends = 0 /\ items = <<>>
    /\ products = [keys |-> <<>>, val |-> <<>>]
    /\ examined = <<>> /\ steps = 0 /\ N = 0

---------------------------------------------------------------------------
(* Helpers on Python values. *)

Range(s) == {s[j] : j \in 1..Len(s)}

Min(S) == CHOOSE x \in S : \A y \in S : x <= y

RECURSIVE SortedTuple(_)
(* The sorted tuple of a set of numbers. *)
SortedTuple(S) ==
    IF S = {} THEN <<>>
    ELSE LET m == Min(S) IN <<m>> \o SortedTuple(S \ {m})

(* Iterating over a set of small ints visits them in increasing order. *)
IterationOrder(S) == SortedTuple(S)

RECURSIVE SeqsUpTo(_, _)
(* All sequences over S of length at most len. *)
SeqsUpTo(S, len) ==
    IF len = 0 THEN {<<>>}
    ELSE LET shorter == SeqsUpTo(S, len - 1)
         IN  shorter \cup {Append(s, x) : s \in {t \in shorter : Len(t) = len - 1}, x \in S}

IsPrefix(s, t) == Len(s) <= Len(t) /\ \A j \in 1..Len(s) : s[j] = t[j]

PrefixComparable(s, t) == IsPrefix(s, t) \/ IsPrefix(t, s)

---------------------------------------------------------------------------
(* The worked examples of the notebook. *)

Example360 ==
    << <<6, 60>>, <<10, 36>>, <<12, 30>>, <<15, 24>>, <<18, 20>>, <<10, 35>> >>

Example302400 ==
    << <<6, 10, 12, 14, 30>>, <<6, 10, 12, 15, 28>>, <<6, 10, 12, 20, 21>>,
       <<6, 10, 14, 15, 24>>, <<6, 10, 14, 18, 20>>, <<6, 12, 14, 15, 20>> >>

---------------------------------------------------------------------------
(* k_disjoint and is_disjoint. *)

is_disjoint_all(A, B) == ~ \A a \in Range(A) : a \in Range(B)

(* def is_disjoint(A, B): return not any(a in B for a in A) *)
is_disjoint(A, B) == ~ \E a \in Range(A) : a \in Range(B)

(* A reference to a set object: the default argument's object, or an object *)
(* of the search's own holding val.                                         *)
DefaultRef == [ref |-> "default", val |-> {}]

Deref(dflt, p) == IF p.ref = "default" THEN dflt ELSE p.val

UnionInPlace(dflt, p, selection) ==
    IF p.ref = "default"
    THEN [dflt |-> dflt \cup {selection}, p |-> p]
    ELSE [dflt |-> dflt, p |-> [ref |-> "own", val |-> p.val \cup {selection}]]

(* partial_solution | {selection}: a new set object; neither operand is    *)
(* modified.  Returns the contents of the default object and the reference *)
(* to the result.                                                          *)
SetUnion(dflt, p, selection) ==
    [dflt |-> dflt,
     p    |-> [ref |-> "own", val |-> Deref(dflt, p) \cup {selection}]]

(* len(partial_solution) == k *)
IsComplete(kk, sz) == sz = kk

CanStillReachStrict(kk, len, start, sz) == sz + (len - start) > kk

(* len(partial_solution) + (len(selections) - start) >= k *)
CanStillReach(kk, len, start, sz) == sz + (len - start) >= kk

ChildStartFromStart(start, i) == start + 1

(* the start argument of the recursive call: i + 1 *)
ChildStart(start, i) == i + 1

(* all(is_disjoint(selection, s) for s in partial_solution) *)
AllDisjoint(selection, partial) == \A s \in partial : is_disjoint(selection, s)

(* The frame of a call k_disjoint(k, selections, start, partial_solution)  *)
(* that has not run yet.                                                   *)
NewFrame(start, p) == [start |-> start, p |-> p, i |-> start, pc |-> "entry"]

Pop(stack) == SubSeq(stack, 1, Len(stack) - 1)

SetTop(stack, f) == [stack EXCEPT ![Len(stack)] = f]

RECURSIVE Run(_, _, _, _)
(* Runs the generator whose frames are stack (innermost last) until its    *)
(* next yield or its end.  Returns the frames, the contents of the default *)
(* object, and whether and what it yielded.                                *)
Run(kk, sels, stack, dflt) ==
    IF stack = <<>>
    THEN [stack |-> stack, dflt |-> dflt, yielded |-> FALSE, value |-> {}]
    ELSE
      LET f == stack[Len(stack)]
          partial == Deref(dflt, f.p)
      IN
      CASE f.pc = "entry" ->
             IF IsComplete(kk, Cardinality(partial))
             THEN [stack |-> SetTop(stack, [f EXCEPT !.pc = "yield"]),
                   dflt |-> dflt, yielded |-> TRUE, value |-> partial]
             ELSE IF CanStillReach(kk, Len(sels), f.start, Cardinality(partial))
             THEN Run(kk, sels, SetTop(stack, [f EXCEPT !.pc = "loop", !.i = f.start]), dflt)
             ELSE Run(kk, sels, Pop(stack), dflt)
        [] f.pc = "yield" ->
             Run(kk, sels, Pop(stack), dflt)
        [] f.pc = "loop" ->
             IF f.i >= Len(sels)
             THEN Run(kk, sels, Pop(stack), dflt)
             ELSE LET selection == sels[f.i + 1]
                      next == [f EXCEPT !.i = f.i + 1]
                  IN  IF AllDisjoint(selection, partial)
                      THEN LET u == SetUnion(dflt, f.p, selection)
                           IN  Run(kk, sels,
                                   Append(SetTop(stack, next),
                                          NewFrame(ChildStart(f.start, f.i), u.p)),
                                   u.dflt)
                      ELSE Run(kk, sels, SetTop(stack, next), dflt)

(* The generator object k_disjoint(k, selections) returns: start=0 and     *)
(* partial_solution bound to the default object; no code has run yet.      *)
NewGenerator == [status |-> "active", stack |-> <<NewFrame(0, DefaultRef)>>, out |-> <<>>]

NoGenerator == [status |-> "none", stack |-> <<>>, out |-> <<>>]

---------------------------------------------------------------------------
(* factors, product and the two filters (cells 3, 5 and 7). *)

RECURSIVE product(_)
(* def product(nums): result = 1; for num in nums: result *= num *)
product(nums) ==
    IF nums = <<>> THEN 1
    ELSE product(SubSeq(nums, 1, Len(nums) - 1)) * nums[Len(nums)]

(* The first p of range(2, n + 1) with n % p == 0. *)
FirstDivisor(m) == Min({p \in 2..m : m % p = 0})

RECURSIVE factorsAppending(_)
factorsAppending(m) ==
    IF m = 1 THEN <<>>
    ELSE LET p == FirstDivisor(m) IN factorsAppending(m \div p) \o <<p>>

RECURSIVE factors(_)
(* def factors(n): [] if n == 1 else [p] + factors(n // p) for the first p *)
factors(m) ==
    IF m = 1 THEN <<>>
    ELSE LET p == FirstDivisor(m) IN <<p>> \o factors(m \div p)

(* distinct = set *)
distinct(list) == Range(list)

ManyPrimeFactors(m) == Len(factors(m)) >= MinDistinctPrimes

(* the condition of cell 3: len(distinct(factors(n))) >= 2 *)
ManyDistinctPrimeFactors(m) == Cardinality(distinct(factors(m))) >= MinDistinctPrimes

(* Counter[p]: 0 for a missing key *)
Count(counter, p) == IF p \in DOMAIN counter THEN counter[p] ELSE 0

(* Counter: one more occurrence of each element of ps *)
CountAll(counter, ps) ==
    [p \in DOMAIN counter \cup ps |-> Count(counter, p) + (IF p \in ps THEN 1 ELSE 0)]

PrimesMoreFrequent(m, counter) ==
    \A p \in distinct(factors(m)) : Count(counter, p) > MinPrimeCount

(* the condition of cell 7: all(prime_counts[p] >= 5 for p in distinct(factors(n))) *)
PrimesFrequent(m, counter) ==
    \A p \in distinct(factors(m)) : Count(counter, p) >= MinPrimeCount

(* factors(n) *)
Factorize ==
    /\ mode = "factors" /\ ~ facs.done
    /\ facs' = [done |-> TRUE, value |-> factors(n)]
    /\ UNCHANGED <<mode, pc, n, searchVars, filterVars, indexVars>>

InitFactors ==
    /\ mode = "factors" /\ pc = "factors"
    /\ n \in 1..MaxNumber
    /\ facs = [done |-> FALSE, value |-> <<>>]
    /\ default_partial = {}
    /\ IdleSearch /\ IdleFilter /\ IdleIndex

SpecFactors == InitFactors /\ [][Factorize]_vars

(* Cell 3, one n of range(1, 71) at a time. *)
Cell3Step ==
    /\ mode = "filter" /\ pc = "cell3" /\ todo # <<>>
    /\ acc' = IF ManyDistinctPrimeFactors(Head(todo)) THEN acc \cup {Head(todo)} ELSE acc
    /\ todo' = Tail(todo)
    /\ UNCHANGED <<mode, pc, numbers, prime_counts, round>>
    /\ UNCHANGED <<searchVars, factorVars, indexVars>>

(* numbers = {...}; cell 5 starts iterating over numbers. *)
Cell3Bind ==
    /\ mode = "filter" /\ pc = "cell3" /\ todo = <<>>
    /\ numbers' = acc
    /\ pc' = "cell5" /\ acc' = <<>> /\ todo' = IterationOrder(acc)
    /\ UNCHANGED <<mode, prime_counts, round, searchVars, factorVars, indexVars>>

(* Cell 5, one n of numbers at a time: every p of distinct(factors(n)) is counted. *)
Cell5Step ==
    /\ mode = "filter" /\ pc = "cell5" /\ todo # <<>>
    /\ acc' = CountAll(acc, distinct(factors(Head(todo))))
    /\ todo' = Tail(todo)
    /\ UNCHANGED <<mode, pc, numbers, prime_counts, round>>
    /\ UNCHANGED <<searchVars, factorVars, indexVars>>

(* prime_counts = Counter(...); cell 7 starts iterating over numbers. *)
Cell5Bind ==
    /\ mode = "filter" /\ pc = "cell5" /\ todo = <<>>
    /\ prime_counts' = acc
    /\ pc' = "cell7" /\ acc' = {} /\ todo' = IterationOrder(numbers)
    /\ UNCHANGED <<mode, numbers, round, searchVars, factorVars, indexVars>>

(* Cell 7, one n of numbers at a time. *)
Cell7Step ==
    /\ mode = "filter" /\ pc = "cell7" /\ todo # <<>>
    /\ acc' = IF PrimesFrequent(Head(todo), prime_counts) THEN acc \cup {Head(todo)} ELSE acc
    /\ todo' = Tail(todo)
    /\ UNCHANGED <<mode, pc, numbers, prime_counts, round>>
    /\ UNCHANGED <<searchVars, factorVars, indexVars>>

(* numbers = {...} *)
Cell7Bind ==
    /\ mode = "filter" /\ pc = "cell7" /\ todo = <<>>
    /\ numbers' = acc
    /\ pc' = "filtered" /\ round' = round + 1
    /\ UNCHANGED <<mode, prime_counts, acc, todo, searchVars, factorVars, indexVars>>

(* Cells 5 and 7 are executed again, on the numbers cell 7 has left. *)
Refilter ==
    /\ mode = "filter" /\ pc = "filtered" /\ round < MaxRounds
    /\ pc' = "cell5" /\ acc' = <<>> /\ todo' = IterationOrder(numbers)
    /\ UNCHANGED <<mode, numbers, prime_counts, round, searchVars, factorVars, indexVars>>

InitFilter ==
    /\ mode = "filter" /\ pc = "cell3"
    /\ numbers = {} /\ prime_counts = <<>> /\ round = 0
    /\ acc = {} /\ todo = [j \in 1..MaxNumber |-> j]
    /\ default_partial = {}
    /\ IdleSearch /\ IdleFactors /\ IdleIndex

NextFilter ==
    \/ Cell3Step \/ Cell3Bind
    \/ Cell5Step \/ Cell5Bind
    \/ Cell7Step \/ Cell7Bind
    \/ Refilter

SpecFilter == InitFilter /\ [][NextFilter]_vars

---------------------------------------------------------------------------
(* combinations, multimap and the product discovery (cells 9 and 21). *)

RECURSIVE combinations(_, _)
(* itertools.combinations(pool, r): the r-tuples of elements of pool, in    *)
(* the order of their positions in pool.                                    *)
combinations(pool, r) ==
    IF r = 0 THEN << <<>> >>
    ELSE IF Len(pool) < r THEN <<>>
    ELSE LET rest == Tail(pool)
             withHead == combinations(rest, r - 1)
         IN  [j \in 1..Len(withHead) |-> <<Head(pool)>> \o withHead[j]]
             \o combinations(rest, r)

EmptyDict == [keys |-> <<>>, val |-> <<>>]

MultimapOverwrite(result, key, x) ==
    [keys |-> IF key \in DOMAIN result.val THEN result.keys ELSE Append(result.keys, key),
     val  |-> [q \in DOMAIN result.val \cup {key} |->
                  IF q = key THEN <<x>> ELSE result.val[q]]]

(* result[key(x)].append(x), result a defaultdict(list): a missing key is   *)
(* inserted, after the keys there are, with the empty list.                 *)
MultimapAppend(result, key, x) ==
    [keys |-> IF key \in DOMAIN result.val THEN result.keys ELSE Append(result.keys, key),
     val  |-> [q \in DOMAIN result.val \cup {key} |->
                  IF q = key
                  THEN (IF key \in DOMAIN result.val THEN Append(result.val[key], x) ELSE <<x>>)
                  ELSE result.val[q]]]

RECURSIVE AllResults(_, _, _, _)
AllResults(kk, sels, stack, dflt) ==
    LET r == Run(kk, sels, stack, dflt)
    IN  IF ~ r.yielded THEN [found |-> TRUE, dflt |-> r.dflt]
        ELSE IF r.value = {} THEN [found |-> FALSE, dflt |-> r.dflt]
        ELSE AllResults(kk, sels, r.stack, r.dflt)

RECURSIVE AnyResult(_, _, _, _)
(* any(g) for the generator g whose frames are stack: g is consumed up to   *)
(* its first result that is true (a set that is not empty), or to its end.  *)
AnyResult(kk, sels, stack, dflt) ==
    LET r == Run(kk, sels, stack, dflt)
    IN  IF ~ r.yielded THEN [found |-> FALSE, dflt |-> r.dflt]
        ELSE IF r.value # {} THEN [found |-> TRUE, dflt |-> r.dflt]
        ELSE AnyResult(kk, sels, r.stack, r.dflt)

(* products has keys the discovery has not examined. *)
MoreKeys == Len(examined) < Len(products.keys)

(* multimap: for x in items: result[key(x)].append(x), key = product *)
MultimapStep ==
    /\ mode = "index" /\ pc = "multimap" /\ items # <<>>
    /\ products' = MultimapAppend(products, product(Head(items)), Head(items))
    /\ items' = Tail(items)
    /\ steps' = steps + 1
    /\ UNCHANGED <<mode, pc, universe, sel_size, friends, examined, N>>
    /\ UNCHANGED <<searchVars, factorVars, filterVars>>

(* multimap: return result; products is bound, cell 21 starts. *)
MultimapReturn ==
    /\ mode = "index" /\ pc = "multimap" /\ items = <<>>
    /\ pc' = "cell21"
    /\ steps' = steps + 1
    /\ UNCHANGED <<mode, universe, sel_size, friends, items, products, examined, N>>
    /\ UNCHANGED <<searchVars, factorVars, filterVars>>

(* Cell 21, the next n of products: any(k_disjoint(5, products[n])) is false. *)
DiscoverNext ==
    /\ mode = "index" /\ pc = "cell21" /\ MoreKeys
    /\ LET key == products.keys[Len(examined) + 1]
           a == AnyResult(friends, products.val[key], NewGenerator.stack, default_partial)
       IN  /\ ~ a.found
           /\ examined' = Append(examined, key)
           /\ default_partial' = a.dflt
    /\ steps' = steps + 1
    /\ UNCHANGED <<mode, pc, universe, sel_size, friends, items, products, N>>
    /\ UNCHANGED <<k, selections, gens, hist, factorVars, filterVars>>

(* Cell 21, the next n of products: any(...) is true, next() returns n, N = n. *)
DiscoverFound ==
    /\ mode = "index" /\ pc = "cell21" /\ MoreKeys
    /\ LET key == products.keys[Len(examined) + 1]
           a == AnyResult(friends, products.val[key], NewGenerator.stack, default_partial)
       IN  /\ a.found
           /\ examined' = Append(examined, key)
           /\ default_partial' = a.dflt
           /\ N' = key
    /\ pc' = "found"
    /\ steps' = steps + 1
    /\ UNCHANGED <<mode, universe, sel_size, friends, items, products>>
    /\ UNCHANGED <<k, selections, gens, hist, factorVars, filterVars>>

(* Cell 21, products has no further n: next() raises StopIteration. *)
DiscoverStop ==
    /\ mode = "index" /\ pc = "cell21" /\ ~ MoreKeys
    /\ pc' = "StopIteration"
    /\ steps' = steps + 1
    /\ UNCHANGED <<mode, universe, sel_size, friends, items, products, examined, N>>
    /\ UNCHANGED <<searchVars, factorVars, filterVars>>

InitIndex ==
    /\ mode = "index" /\ pc = "multimap"
    /\ universe \in SUBSET (1..MaxUniverse)
    /\ sel_size \in 0..MaxSize
    /\ friends \in 0..MaxFriends
    /\ items = combinations(IterationOrder(universe), sel_size)
    /\ products = EmptyDict /\ examined = <<>> /\ steps = 0 /\ N = 0
    /\ default_partial = {}
    /\ IdleSearch /\ IdleFactors /\ IdleFilter

NextIndex ==
    \/ MultimapStep \/ MultimapReturn
    \/ DiscoverNext \/ DiscoverFound \/ DiscoverStop

SpecIndex == InitIndex /\ [][NextIndex]_vars

---------------------------------------------------------------------------
(* Calls of k_disjoint and their consumption, one next() at a time. *)

(* g = k_disjoint(k, selections) *)
Call(g) ==
    /\ gens[g].status = "none"
    /\ gens' = [gens EXCEPT ![g] = NewGenerator]
    /\ UNCHANGED <<mode, pc, k, selections, default_partial, hist>>
    /\ UNCHANGED <<factorVars, filterVars, indexVars>>

(* next(g): the generator runs to its next yield, or ends (StopIteration). *)
Resume(g) ==
    /\ gens[g].status = "active"
    /\ LET r == Run(k, selections, gens[g].stack, default_partial)
           out == IF r.yielded THEN Append(gens[g].out, r.value) ELSE gens[g].out
       IN  /\ gens' = [gens EXCEPT ![g] =
                         [status |-> IF r.yielded THEN "active" ELSE "done",
                          stack  |-> r.stack,
                          out    |-> out]]
           /\ default_partial' = r.dflt
           /\ hist' = IF Len(out) > Len(hist) THEN out ELSE hist
    /\ UNCHANGED <<mode, pc, k, selections, factorVars, filterVars, indexVars>>

(* The caller drops g, consumed or not (any() stops at the first result). *)
Abandon(g) ==
    /\ gens[g].status \in {"active", "done"}
    /\ gens' = [gens EXCEPT ![g] = NoGenerator]
    /\ UNCHANGED <<mode, pc, k, selections, default_partial, hist>>
    /\ UNCHANGED <<factorVars, filterVars, indexVars>>

(* Generic selections: the sorted tuples of one or two of the numbers       *)
(* 1..maxNum (the selections of the worked example are pairs).              *)
GenericSizes == {1, 2}

Pool(maxNum) ==
    {SortedTuple(S) : S \in {T \in SUBSET (1..maxNum) : Cardinality(T) \in GenericSizes}}

InitInputs(maxNum, maxSels) ==
    \/ /\ k \in (-1)..MaxK
       /\ selections \in SeqsUpTo(Pool(maxNum), maxSels)
    \/ /\ k = Friends
       /\ selections \in {Example360, Example302400}

(* One search, consumed to its end. *)
InitSearch ==
    /\ mode = "search" /\ pc = "calls"
    /\ IdleFactors /\ IdleFilter /\ IdleIndex
    /\ InitInputs(MaxNum, MaxSels)
    /\ default_partial = {}
    /\ gens = [g \in {1} |-> NoGenerator]
    /\ hist = <<>>

NextSearch == Call(1) \/ Resume(1)

SpecSearch == InitSearch /\ [][NextSearch]_vars

(* Two generator objects over the same arguments, consumed in any          *)
(* interleaving, dropped at any point and created again.                   *)
InitCalls ==
    /\ mode = "calls" /\ pc = "calls"
    /\ IdleFactors /\ IdleFilter /\ IdleIndex
    /\ InitInputs(CallsMaxNum, CallsMaxSels)
    /\ default_partial = {}
    /\ gens = [g \in {1, 2} |-> NoGenerator]
    /\ hist = <<>>

NextCalls == \E g \in {1, 2} : Call(g) \/ Resume(g) \/ Abandon(g)

SpecCalls == InitCalls /\ [][NextCalls]_vars

---------------------------------------------------------------------------
(* Properties of k_disjoint. *)

SharesNoNumber(a, b) == Range(a) \cap Range(b) = {}

PairwiseDisjoint(S) == \A a \in S : \A b \in S : a # b => SharesNoNumber(a, b)

(* The ways of choosing k selections of the list, no number in two of them. *)
DisjointChoices == {S \in SUBSET Range(selections) : Cardinality(S) = k /\ PairwiseDisjoint(S)}

NoRepeatedSelection == \A i \in 1..Len(selections) : \A j \in 1..Len(selections) :
                           i # j => selections[i] # selections[j]

NoRepeatedResult(out) == \A i \in 1..Len(out) : \A j \in 1..Len(out) : i # j => out[i] # out[j]

(* C1: every result k_disjoint(k, selections) yields holds exactly k         *)
(* selections, all of them elements of the list, no two of them sharing a   *)
(* number; when the list has no k pairwise disjoint selections, as the six  *)
(* selections of product 302,400 with k = 5, nothing is yielded.            *)
C1_ResultsAreKDisjoint ==
    \A g \in DOMAIN gens :
        /\ \A j \in 1..Len(gens[g].out) :
              LET r == gens[g].out[j]
              IN  /\ Cardinality(r) = k
                  /\ r \subseteq Range(selections)
                  /\ PairwiseDisjoint(r)
        /\ DisjointChoices = {} => gens[g].out = <<>>
        /\ (selections = Example302400 /\ k = Friends) => gens[g].out = <<>>

C1_Witness ==
    /\ gens[1].status = "done" /\ k = 2 /\ Len(gens[1].out) >= 2
    /\ \E a \in Range(selections) : \E b \in Range(selections) : ~ SharesNoNumber(a, b) /\ a # b

(* C2: a search that has run to its end has yielded every way of choosing k *)
(* selections of the list such that no number is in two of them; for the    *)
(* list of the worked example and k = 5 it has yielded exactly 2 results.   *)
C2_Complete ==
    \A g \in DOMAIN gens :
        gens[g].status = "done" =>
            /\ \A S \in DisjointChoices : S \in Range(gens[g].out)
            /\ (selections = Example360 /\ k = Friends) => Len(gens[g].out) = 2

C2_Witness ==
    /\ gens[1].status = "done" /\ selections = Example360 /\ k = Friends
    /\ Len(gens[1].out) = 2

(* C3 as stated: no two results yielded during one run of the search are   *)
(* equal as sets of selections, whatever the list of selections.            *)
C3_NoResultTwice ==
    \A g \in DOMAIN gens : NoRepeatedResult(gens[g].out)

(* C3 as amended: when no selection occurs twice in the list, no two        *)
(* results yielded during one run of the search are equal as sets of        *)
(* selections.                                                              *)
C3_NoResultTwiceOfDistinct ==
    NoRepeatedSelection => \A g \in DOMAIN gens : NoRepeatedResult(gens[g].out)

C3_Witness ==
    /\ NoRepeatedSelection /\ gens[1].status = "done"
    /\ k = 2 /\ Len(gens[1].out) = 3

(* C4: calls of k_disjoint do not affect each other: the results of any two *)
(* calls on the same arguments agree, in order, as far as both were         *)
(* consumed, also with the results of calls dropped earlier; a call starts  *)
(* from the empty partial solution; the default partial_solution object is  *)
(* never modified.                                                          *)
C4_CallsIndependent ==
    /\ default_partial = {}
    /\ \A g \in DOMAIN gens : \A h \in DOMAIN gens :
           PrefixComparable(gens[g].out, gens[h].out)
    /\ \A g \in DOMAIN gens :
           /\ IsPrefix(gens[g].out, hist)
           /\ gens[g].status = "done" => gens[g].out = hist
           /\ gens[g].stack # <<>> =>
                  /\ gens[g].stack[1].start = 0
                  /\ Deref(default_partial, gens[g].stack[1].p) = {}

C4_Witness ==
    /\ mode = "calls"
    /\ Len(hist) >= 2
    /\ gens[1].status = "active" /\ Len(gens[1].out) = 1
    /\ gens[2].status = "done"

---------------------------------------------------------------------------
(* Properties of factors and of the filters. *)

IsPrime(p) == p >= 2 /\ \A d \in 2..(p - 1) : p % d # 0

NonDecreasing(list) == \A j \in 1..(Len(list) - 1) : list[j] <= list[j + 1]

(* C7: for n in 1..70, factors(n) is a non-decreasing list of primes whose  *)
(* product is n, empty for n = 1; factors(12) = [2,2,3], factors(8) =       *)
(* [2,2,2].                                                                 *)
C7_FactorsCorrect ==
    facs.done =>
        /\ NonDecreasing(facs.value)
        /\ \A j \in 1..Len(facs.value) : IsPrime(facs.value[j])
        /\ product(facs.value) = n
        /\ n = 1 => facs.value = <<>>
        /\ n = 12 => facs.value = <<2, 2, 3>>
        /\ n = 8 => facs.value = <<2, 2, 2>>

C7_Witness == facs.done /\ n = 60 /\ facs.value = <<2, 2, 3, 5>>

(* C8: cell 3 leaves exactly 41 numbers of 1..70; cell 7, run on them with  *)
(* the prime counts of cell 5, leaves exactly 28.                           *)
C8_FilterCounts ==
    /\ (round = 0 /\ pc \in {"cell5", "cell7"}) => Cardinality(numbers) = 41
    /\ (round = 1 /\ pc = "filtered") => Cardinality(numbers) = 28

C8_Witness ==
    /\ mode = "filter" /\ round = 1 /\ pc = "filtered"
    /\ Cardinality(numbers) = 28 /\ Count(prime_counts, 11) = 5

(* C10: executing cells 5 and 7 again on the 28 numbers removes none of     *)
(* them: the set cell 7 builds is the set it started from.                   *)
C10_FixedPoint ==
    (round >= 1 /\ pc = "cell7" /\ todo = <<>>) =>
        /\ acc = numbers
        /\ Cardinality(numbers) = 28

C10_Witness ==
    /\ mode = "filter" /\ round = 1 /\ pc = "cell7" /\ todo = <<>>
    /\ Cardinality(acc) = 28 /\ Count(prime_counts, 11) = 5 /\ Count(prime_counts, 2) = 21

---------------------------------------------------------------------------
(* Properties of multimap and of the product discovery. *)

RECURSIVE ProductOfSet(_)
ProductOfSet(S) == IF S = {} THEN 1 ELSE LET x == Min(S) IN x * ProductOfSet(S \ {x})

(* Where selection x is stored in products. *)
Places(x) ==
    UNION {{<<key, j>> : j \in {i \in 1..Len(products.val[key]) : products.val[key][i] = x}} :
              key \in DOMAIN products.val}

Stored == UNION {Range(products.val[key]) : key \in DOMAIN products.val}

(* C9: once multimap has returned, every size-subset of the universe is in  *)
(* products exactly once, as a tuple; every tuple in products has size      *)
(* distinct members, all of the universe, and is in the list of the key     *)
(* that is the product of its members.                                      *)
C9_GroupsPartitionCombinations ==
    pc # "multimap" =>
        /\ \A S \in SUBSET universe :
              Cardinality(S) = sel_size =>
                  \E x \in Stored : Range(x) = S /\ Cardinality(Places(x)) = 1
                      /\ \A y \in Stored : Range(y) = S => y = x
        /\ \A key \in DOMAIN products.val :
              \A j \in 1..Len(products.val[key]) :
                  LET x == products.val[key][j]
                  IN  /\ Len(x) = sel_size
                      /\ Cardinality(Range(x)) = sel_size
                      /\ Range(x) \subseteq universe
                      /\ ProductOfSet(Range(x)) = key
        /\ Range(products.keys) = DOMAIN products.val
        /\ Cardinality(Range(products.keys)) = Len(products.keys)

C9_Witness ==
    /\ mode = "index" /\ pc = "cell21" /\ sel_size = 2 /\ friends = 2
    /\ universe = {1, 2, 3, 4, 6}
    /\ Len(products.val[6]) = 2 /\ Len(products.val[2]) = 1

GroupSolvable(key) ==
    \E S \in SUBSET Range(products.val[key]) : Cardinality(S) = friends /\ PairwiseDisjoint(S)

NoGroupSolvable ==
    pc \in {"cell21", "found", "StopIteration"} /\ \A key \in DOMAIN products.val : ~ GroupSolvable(key)

Ended == pc \in {"found", "StopIteration"}

(* The number of steps cells 9 and 21 can still take, at most. *)
StepsLeft ==
    CASE pc = "multimap" -> 2 + 2 * Len(items) + Len(products.keys)
      [] pc = "cell21" -> 1 + Len(products.keys) - Len(examined)
      [] OTHER -> 0

(* C6: the discovery ends, with N bound or with StopIteration raised: until *)
(* it has ended it has a step to take (in cell 21: a key to examine, or     *)
(* StopIteration to raise), and the steps taken and those left              *)
(* never exceed the steps there were to take at the start.  When no group   *)
(* of products has the wanted number of pairwise disjoint selections N is   *)
(* never bound, and when StopIteration is raised every key of products has  *)
(* been examined once, in order.                                            *)
C6_DiscoveryEnds ==
    /\ (mode = "index" /\ ~ Ended) => pc \in {"multimap", "cell21"}
    /\ (mode = "index" /\ pc = "multimap") => ENABLED (MultimapStep \/ MultimapReturn)
    /\ (mode = "index" /\ pc = "cell21") =>
           IF examined = products.keys THEN ENABLED DiscoverStop ELSE MoreKeys
    /\ StepsLeft >= 0
    /\ steps + StepsLeft <= 2 + 2 * Len(combinations(IterationOrder(universe), sel_size))
    /\ NoGroupSolvable => pc # "found" /\ N = 0
    /\ pc = "StopIteration" => examined = products.keys /\ N = 0

C6_Witness ==
    /\ mode = "index" /\ pc = "StopIteration" /\ NoGroupSolvable
    /\ friends = 2 /\ Len(examined) >= 3 /\ \E key \in DOMAIN products.val : Len(products.val[key]) >= 2

=============================================================================
